---- MODULE Spec2Model ----
(***************************************************************************)
(* A model of src/main.py: a Flask facade that validates an Instagram post *)
(* URL, extracts its shortcode, resolves the post through yt-dlp with a    *)
(* fallback to a scrape of the public embed page, and answers with JSON.   *)
(*                                                                         *)
(* A string is a sequence of one-character strings, so that the regular    *)
(* expression of the validator, urlparse and str.split are computed on the *)
(* characters, as the code computes them.                                  *)
(***************************************************************************)
EXTENDS Integers, Sequences, FiniteSets, TLC

(***************************************************************************)
(* Bounds of the model.                                                    *)
(***************************************************************************)
\* longest tail, in characters, that follows /p/, /reel/ or /tv/ in the URLs
\* the pure functions are applied to
MaxTail == 4
\* longest tail of the url parameter of a request
MaxReqTail == 4

(***************************************************************************)
(* Characters and string helpers.                                          *)
(***************************************************************************)
NL == "\n"

\* characters of a tail: two letters, the path separator, and the query and
\* the parameter separators of urlparse
TailChars == {"a", "b", "/", "?", ";"}
\* characters of the tail of a request's url parameter: a letter, the path
\* separator and a line feed
ReqTailChars == {"a", "/", NL}

SeqsUpTo(S, n) == UNION {[1..k -> S] : k \in 0..n}

\* s[i..j] of Python, 0-based, end excluded, given as the 1-based SubSeq
Slice(s, from, to) == SubSeq(s, from + 1, to)

\* does lit occur in s right after the first i characters
MatchesAt(s, i, lit) ==
    /\ i + Len(lit) <= Len(s)
    /\ \A k \in 1..Len(lit) : s[i + k] = lit[k]

\* str.find(c): 0-based index of the first c in s, -1 when there is none
Find(s, c) ==
    IF \E k \in 1..Len(s) : s[k] = c
    THEN (CHOOSE k \in 1..Len(s) : s[k] = c /\ \A j \in 1..(k - 1) : s[j] # c) - 1
    ELSE -1

\* str.rfind(c): 0-based index of the last c in s, -1 when there is none
RFind(s, c) ==
    IF \E k \in 1..Len(s) : s[k] = c
    THEN (CHOOSE k \in 1..Len(s) : s[k] = c /\ \A j \in (k + 1)..Len(s) : s[j] # c) - 1
    ELSE -1

\* str.find(c, start)
FindFrom(s, c, start) ==
    IF \E k \in (start + 1)..Len(s) : s[k] = c
    THEN (CHOOSE k \in (start + 1)..Len(s) :
              s[k] = c /\ \A j \in (start + 1)..(k - 1) : s[j] # c) - 1
    ELSE -1

\* str.replace(c, ""): s without its occurrences of c
RECURSIVE Remove(_, _)
Remove(s, c) ==
    IF s = <<>> THEN <<>>
    ELSE IF Head(s) = c THEN Remove(Tail(s), c)
    ELSE <<Head(s)>> \o Remove(Tail(s), c)

\* the literals of the URLs
Http == <<"h", "t", "t", "p">>
Https == <<"h", "t", "t", "p", "s">>
Ftp == <<"f", "t", "p">>
ColonSlashSlash == <<":", "/", "/">>
WwwDot == <<"w", "w", "w", ".">>
WwwX == <<"w", "w", "w", "x">>
InstagramCom == <<"i", "n", "s", "t", "a", "g", "r", "a", "m", ".", "c", "o", "m">>
InstagramXCom == <<"i", "n", "s", "t", "a", "g", "r", "a", "m", "x", "c", "o", "m">>
Slash == <<"/">>
KindP == <<"p">>
KindReel == <<"r", "e", "e", "l">>
KindTv == <<"t", "v">>
KindReels == <<"r", "e", "e", "l", "s">>

\* beginnings the validator accepts: scheme, optional www., host, kind
GoodPrefixes ==
    { Https \o ColonSlashSlash \o WwwDot \o InstagramCom \o Slash \o KindP \o Slash,
      Http \o ColonSlashSlash \o InstagramCom \o Slash \o KindReel \o Slash,
      Https \o ColonSlashSlash \o InstagramCom \o Slash \o KindTv \o Slash }

\* beginnings it rejects: another scheme, a host where the dots of the
\* pattern are other characters, another kind
BadPrefixes ==
    { Ftp \o ColonSlashSlash \o InstagramCom \o Slash \o KindP \o Slash,
      Https \o ColonSlashSlash \o WwwX \o InstagramCom \o Slash \o KindP \o Slash,
      Https \o ColonSlashSlash \o InstagramXCom \o Slash \o KindP \o Slash,
      Https \o ColonSlashSlash \o InstagramCom \o Slash \o KindReels \o Slash }

Prefixes == GoodPrefixes \cup BadPrefixes

\* the URLs the pure functions are applied to
Urls == {p \o t : p \in Prefixes, t \in SeqsUpTo(TailChars, MaxTail)} \cup {<<>>}

\* Python's None and a value that is not None
None == <<>>
Some(v) == <<v>>
\* truth value of an optional string: None and "" are false
Truthy(o) == o # None /\ o[1] # <<>>

\* the beginnings that are followed by the long tails in the requests
LongTailPrefixes ==
    BadPrefixes
        \cup {Https \o ColonSlashSlash \o WwwDot \o InstagramCom \o Slash \o KindP \o Slash}

\* the url parameters of the requests: request.args.get('url') is None when
\* the request has no such parameter
RequestUrls ==
    {Some(p \o t) : p \in LongTailPrefixes, t \in SeqsUpTo(ReqTailChars, MaxReqTail)}
        \cup {Some(p \o t) : p \in GoodPrefixes, t \in SeqsUpTo(ReqTailChars, 1)}
        \cup {Some(<<>>), None}

(***************************************************************************)
(* The validator: re.match of                                              *)
(*   ^https?://(www\.)?instagram\.com/(p|reel|tv)/[^/]+/?.*$               *)
(* computed on the set of positions (numbers of characters consumed) the   *)
(* pattern can have reached.                                               *)
(***************************************************************************)
\* a literal
ReLit(S, s, lit) == {i + Len(lit) : i \in {j \in S : MatchesAt(s, j, lit)}}
\* (lit)?
ReOpt(S, s, lit) == S \cup ReLit(S, s, lit)
\* [^/]+
ReNotSlashPlus(S, s) ==
    {j \in 0..Len(s) : \E i \in S : i < j /\ \A k \in (i + 1)..j : s[k] # "/"}
\* .* : the dot matches every character but a line feed
ReDotStar(S, s) ==
    {j \in 0..Len(s) : \E i \in S : i <= j /\ \A k \in (i + 1)..j : s[k] # NL}
\* $ : the end of the string, or right before a line feed that ends it
ReEnd(S, s) ==
    {i \in S : i = Len(s) \/ (i = Len(s) - 1 /\ s[Len(s)] = NL)}

\* the pattern with [^/]* for [^/]+
ReMatchEmptySegment(s) ==
    LET p1 == ReLit({0}, s, Http)
        p2 == ReOpt(p1, s, <<"s">>)
        p3 == ReLit(p2, s, ColonSlashSlash)
        p4 == ReOpt(p3, s, WwwDot)
        p5 == ReLit(p4, s, InstagramCom \o Slash)
        p6 == ReLit(p5, s, KindP) \cup ReLit(p5, s, KindReel) \cup ReLit(p5, s, KindTv)
        p7 == ReLit(p6, s, Slash)
        p8 == p7 \cup ReNotSlashPlus(p7, s)
        p9 == ReOpt(p8, s, Slash)
        p10 == ReDotStar(p9, s)
    IN  ReEnd(p10, s) # {}

ReMatchInstagramUrl(s) ==
    LET p1 == ReLit({0}, s, Http)
        p2 == ReOpt(p1, s, <<"s">>)
        p3 == ReLit(p2, s, ColonSlashSlash)
        p4 == ReOpt(p3, s, WwwDot)
        p5 == ReLit(p4, s, InstagramCom \o Slash)
        p6 == ReLit(p5, s, KindP) \cup ReLit(p5, s, KindReel) \cup ReLit(p5, s, KindTv)
        p7 == ReLit(p6, s, Slash)
        p8 == ReNotSlashPlus(p7, s)
        p9 == ReOpt(p8, s, Slash)
        p10 == ReDotStar(p9, s)
    IN  ReEnd(p10, s) # {}

(***************************************************************************)
(* urlparse(url).path, as urllib.parse computes it.                        *)
(***************************************************************************)
Letters == {"a", "b", "c", "e", "f", "g", "h", "i", "l", "m", "n", "o", "p",
            "r", "s", "t", "v", "w", "x"}
\* scheme_chars: letters, digits, "+", "-" and "."
SchemeChars == Letters \cup {"."}
\* uses_params holds the empty scheme, ftp, http and https (and others)
UsesParams == {<<>>, Ftp, Http, Https}

\* urlsplit removes tabs, carriage returns and line feeds (and strips
\* leading control characters and spaces) before it splits
UrlSanitize(url) == Remove(url, NL)

\* the place of the scheme's colon, 0 when the URL has no scheme
SchemeEnd(u) ==
    LET i == Find(u, ":")
    IN  IF i > 0 /\ u[1] \in Letters /\ \A k \in 1..i : u[k] \in SchemeChars
        THEN i ELSE 0

UrlScheme(u) == Slice(u, 0, SchemeEnd(u))

AfterScheme(u) ==
    IF SchemeEnd(u) > 0 THEN Slice(u, SchemeEnd(u) + 1, Len(u)) ELSE u

\* _splitnetloc: the netloc ends at the first of "/", "?", "#"
NetlocEnd(r) ==
    LET ends == {i \in 2..Len(r) : i = Len(r) \/ r[i + 1] \in {"/", "?", "#"}}
    IN  CHOOSE i \in ends : \A j \in ends : i <= j

AfterNetloc(r) ==
    IF Len(r) >= 2 /\ r[1] = "/" /\ r[2] = "/"
    THEN Slice(r, NetlocEnd(r), Len(r)) ELSE r

\* url.split(c, 1)[0]
BeforeFirst(r, c) == IF Find(r, c) >= 0 THEN Slice(r, 0, Find(r, c)) ELSE r

\* _splitparams: the parameters start at the first ";" of the last segment
SplitParams(r) ==
    IF Find(r, "/") >= 0
    THEN LET i == FindFrom(r, ";", RFind(r, "/"))
         IN  IF i < 0 THEN r ELSE Slice(r, 0, i)
    ELSE Slice(r, 0, Find(r, ";"))

UrlPath(url) ==
    LET u == UrlSanitize(url)
        r == BeforeFirst(BeforeFirst(AfterNetloc(AfterScheme(u)), "#"), "?")
    IN  IF UrlScheme(u) \in UsesParams /\ Find(r, ";") >= 0
        THEN SplitParams(r) ELSE r

(***************************************************************************)
(* extract_shortcode_from_url                                              *)
(***************************************************************************)
\* the path with its trailing slash kept
KeepTrailingSlash(path) == path

\* path[:-1] when the path ends with a slash
StripTrailingSlash(path) ==
    IF Len(path) > 0 /\ path[Len(path)] = "/"
    THEN SubSeq(path, 1, Len(path) - 1) ELSE path

\* path.split('/')[-1]
LastSegment(path) == Slice(path, RFind(path, "/") + 1, Len(path))

extract_shortcode_from_url(url) == LastSegment(StripTrailingSlash(UrlPath(url)))

(***************************************************************************)
(* Failure messages: a message is a sequence of words.                     *)
(***************************************************************************)
Msg429 == <<"HTTP", "Error", "429", "Too", "Many", "Requests">>
MsgRateLimit == <<"Rate", "Limit", "exceeded">>
MsgPleaseWait == <<"Please", "wait", "a", "few", "minutes">>
MsgLogin == <<"login", "required">>
MsgUnable == <<"Unable", "to", "extract", "data">>
MsgNoEntries == <<"No", "entries", "found", "in", "carousel">>

\* what yt-dlp's extract_info raises
YtdlpErrors == {Msg429, MsgRateLimit, MsgPleaseWait, MsgLogin, MsgUnable}

\* what requests.get / raise_for_status raise for the embed page
Http429 == <<"429", "Client", "Error">>
Http401 == <<"401", "Client", "Error">>
Http404 == <<"404", "Client", "Error">>
EmbedErrors == {Http429, Http401, Http404}

\* str.lower() of a word
Lower(w) ==
    CASE w = "Rate" -> "rate"
      [] w = "Limit" -> "limit"
      [] w = "Please" -> "please"
      [] w = "HTTP" -> "http"
      [] w = "Error" -> "error"
      [] w = "Too" -> "too"
      [] w = "Many" -> "many"
      [] w = "Requests" -> "requests"
      [] w = "Unable" -> "unable"
      [] w = "Client" -> "client"
      [] w = "No" -> "no"
      [] OTHER -> w

LowerStr(msg) == [i \in 1..Len(msg) |-> Lower(msg[i])]

\* phrase in msg
Contains(msg, phrase) == \E i \in 0..Len(msg) : MatchesAt(msg, i, phrase)

\* every failure taken for a rate limit
AnyFailureIsRateLimit(msg) == TRUE

\* the test of the retry decorator on str(e)
IsRateLimitShaped(msg) ==
    \/ Contains(msg, <<"429">>)
    \/ Contains(LowerStr(msg), <<"rate", "limit">>)
    \/ Contains(LowerStr(msg), <<"please", "wait">>)

(***************************************************************************)
(* Dictionaries are functions on their keys.                               *)
(***************************************************************************)
EmptyDict == <<>>
Has(d, k) == k \in DOMAIN d
Get(d, k, default) == IF k \in DOMAIN d THEN d[k] ELSE default
Put(d, k, v) == (k :> v) @@ d
\* d1.update(d2)
Update(d1, d2) == d2 @@ d1

\* request.host_url and the URLs the handlers build
HostUrl == <<"http://host", "/">>

RECURSIVE RStripSlash(_)
RStripSlash(s) ==
    IF s # <<>> /\ s[Len(s)] = "/" THEN RStripSlash(SubSeq(s, 1, Len(s) - 1)) ELSE s

\* the link built on request.host_url as it is, its last slash kept
DownloadUrlKeepSlash(shortcode) == HostUrl \o <<"/api/media/stream/">> \o shortcode

DownloadUrl(shortcode) == RStripSlash(HostUrl) \o <<"/api/media/stream/">> \o shortcode
InstagramUrl(shortcode) == <<"https://www.instagram.com/p/">> \o shortcode \o <<"/">>
EmbedUrl(shortcode) == <<"https://www.instagram.com/p/">> \o shortcode \o <<"/embed/">>

(***************************************************************************)
(* extract_media_info: the record of one yt-dlp info dict.  Of the         *)
(* metadata the code copies, the model keeps id and owner.                 *)
(***************************************************************************)
\* the mp4 format with the greatest height, the first one on ties;
\* <<>> when there is none
RECURSIVE BestMp4From(_, _, _)
BestMp4From(formats, best, best_quality) ==
    IF formats = <<>> THEN best
    ELSE LET fmt == Head(formats)
         IN  IF Get(fmt, "ext", None) = Some("mp4") /\ Get(fmt, "height", 0) > best_quality
             THEN BestMp4From(Tail(formats), Some(fmt), Get(fmt, "height", 0))
             ELSE BestMp4From(Tail(formats), best, best_quality)

BestMp4(formats) == BestMp4From(formats, None, -1)

\* what the except branch of extract_media_info returns
MediaInfoFallback ==
    [error |-> <<"TypeError">>, urls |-> EmptyDict, is_video |-> FALSE, owner |-> EmptyDict]

\* the urls of a video, None when taking [:50] of a missing URL raises
VideoUrls(info) ==
    LET formats == Get(info, "formats", <<>>)
        best == BestMp4(formats)
        u1 == IF formats # <<>> /\ best # None
              THEN Some(Put(EmptyDict, "video", Get(best[1], "url", None)))
              ELSE Some(EmptyDict)
        r1 == IF Has(u1[1], "video") /\ u1[1]["video"] = None THEN None ELSE u1
        r2 == IF r1 = None THEN None
              ELSE IF Has(info, "url")
                   THEN IF info["url"] = None THEN None
                        ELSE Some(Put(r1[1], "video", info["url"]))
                   ELSE r1
    IN  IF r2 = None THEN None
        ELSE IF Has(info, "thumbnail")
             THEN IF info["thumbnail"] = None THEN None
                  ELSE Some(Put(r2[1], "thumbnail", info["thumbnail"]))
             ELSE r2

\* the url of an image filed under the video role
ImageUrlsAsVideo(info) ==
    IF Has(info, "url") /\ info["url"] # None
    THEN Some(Put(EmptyDict, "video", info["url"]))
    ELSE Some(EmptyDict)

\* the urls of an image
ImageUrls(info) ==
    LET r1 == IF Has(info, "url")
              THEN IF info["url"] = None THEN None
                   ELSE Some(Put(EmptyDict, "image", info["url"]))
              ELSE Some(EmptyDict)
    IN  IF r1 = None THEN None
        ELSE IF Has(info, "thumbnail")
             THEN Some(Put(r1[1], "thumbnail", info["thumbnail"]))
             ELSE r1

extract_media_info(info) ==
    LET is_video == Get(info, "ext", None) = Some("mp4")
        urls == IF is_video THEN VideoUrls(info) ELSE ImageUrls(info)
    IN  IF urls = None THEN MediaInfoFallback
        ELSE [id |-> Get(info, "id", Some(<<>>)),
              is_video |-> is_video,
              urls |-> urls[1],
              owner |-> [username |-> Get(info, "uploader", Some(<<>>))]]

(***************************************************************************)
(* What the upstream can answer.                                           *)
(***************************************************************************)
Fmt360 == [ext |-> Some("mp4"), height |-> 360, url |-> Some(<<"cdn/f360.mp4">>),
           acodec |-> Some("aac"), vcodec |-> Some("h264")]
Fmt720 == [ext |-> Some("mp4"), height |-> 720, url |-> Some(<<"cdn/f720.mp4">>),
           acodec |-> Some("none"), vcodec |-> Some("h264")]
InfoVideo == [id |-> Some(<<"v1">>), ext |-> Some("mp4"), url |-> Some(<<"cdn/v.mp4">>),
              thumbnail |-> Some(<<"cdn/t.jpg">>), uploader |-> Some(<<"alice">>)]
InfoImage == [id |-> Some(<<"i1">>), ext |-> Some("jpg"), url |-> Some(<<"cdn/i.jpg">>)]
InfoFormats == [id |-> Some(<<"v2">>), ext |-> Some("mp4"), formats |-> <<Fmt360, Fmt720>>,
                acodec |-> Some("none")]
InfoCarousel == [_type |-> Some("playlist"), entries |-> <<InfoImage, InfoVideo>>]
InfoEmptyCarousel == [_type |-> Some("playlist"), entries |-> <<>>]

\* the info dicts of ydl.extract_info
YtdlpInfos == {InfoVideo, InfoImage, InfoFormats, InfoCarousel, InfoEmptyCarousel}

\* ydl.extract_info returns an info dict or raises
YtdlpUpstream ==
    {[kind |-> "info", info |-> i, msg |-> <<>>] : i \in YtdlpInfos}
        \cup {[kind |-> "raise", info |-> EmptyDict, msg |-> m] : m \in YtdlpErrors}

\* the embed page, by what the patterns of the scrape find in it
PageImage == [video_word |-> FALSE, poster_attr |-> FALSE, username |-> Some(<<"alice">>),
              caption |-> Some(<<"hello", "<br>", "world">>), img_src |-> Some(<<"cdn/e.jpg">>),
              video_poster |-> None, video_src |-> None]
PageVideo == [video_word |-> TRUE, poster_attr |-> TRUE, username |-> None,
              caption |-> None, img_src |-> None,
              video_poster |-> Some(<<"cdn/p.jpg">>), video_src |-> Some(<<"cdn/e.mp4">>)]
PageNoPoster == [video_word |-> TRUE, poster_attr |-> FALSE, username |-> None,
                 caption |-> None, img_src |-> None,
                 video_poster |-> None, video_src |-> Some(<<"cdn/e.mp4">>)]
EmbedPages == {PageImage, PageVideo, PageNoPoster}

\* requests.get of the embed page returns a page or raises
EmbedUpstream ==
    {[kind |-> "page", page |-> g, msg |-> <<>>] : g \in EmbedPages}
        \cup {[kind |-> "raise", page |-> EmptyDict, msg |-> m] : m \in EmbedErrors}

(***************************************************************************)
(* The two strategies.  Each returns the pair (post_data, error).          *)
(***************************************************************************)
\* the except branch of get_post_data_ytdlp
YtdlpFailure(msg) == [post_data |-> None, error |-> Some(<<"yt-dlp", "error:">> \o msg)]

\* the links get_post_data_ytdlp adds to the record
YtdlpLinks(pd, shortcode) ==
    LET urls == Put(Put(pd["urls"], "instagram", Some(InstagramUrl(shortcode))),
                    "download", Some(DownloadUrl(shortcode)))
    IN  Put(Put(pd, "urls", urls), "shortcode", shortcode)

get_post_data_ytdlp(u, up) ==
    LET shortcode == extract_shortcode_from_url(u)
    IN  IF up.kind = "raise" THEN YtdlpFailure(up.msg)
        ELSE IF Get(up.info, "_type", None) = Some("playlist")
        THEN LET entries == Get(up.info, "entries", <<>>)
             IN  IF entries = <<>> THEN YtdlpFailure(MsgNoEntries)
                 ELSE LET carousel_data ==
                              [is_carousel |-> TRUE,
                               carousel_items |->
                                   [i \in 1..Len(entries) |-> extract_media_info(entries[i])]]
                          pd == Update(extract_media_info(entries[1]), carousel_data)
                      IN  [post_data |-> Some(YtdlpLinks(pd, shortcode)), error |-> None]
        ELSE LET pd == Put(extract_media_info(up.info), "is_carousel", FALSE)
             IN  [post_data |-> Some(YtdlpLinks(pd, shortcode)), error |-> None]

\* re.sub(r'<.*?>', '', caption)
IsTag(w) == w = "<br>"
CleanCaption(caption) == SelectSeq(caption, LAMBDA w : ~IsTag(w))

get_post_data_no_login(u, up) ==
    LET shortcode == extract_shortcode_from_url(u)
    IN  IF up.kind = "raise"
        THEN [post_data |-> None, error |-> Some(<<"Error:">> \o up.msg)]
        ELSE LET g == up.page
                 is_video == g.video_word /\ g.poster_attr
                 d0 == [shortcode |-> shortcode, is_video |-> is_video]
                 d1 == IF g.username # None
                       THEN Put(d0, "owner",
                                [username |-> g.username,
                                 profile_url |-> Some(<<"https://www.instagram.com/">>
                                                      \o g.username[1] \o <<"/">>)])
                       ELSE d0
                 d2 == IF g.caption # None
                       THEN Put(d1, "caption", Some(CleanCaption(g.caption[1])))
                       ELSE d1
                 u0 == [embed |-> Some(EmbedUrl(shortcode)),
                        instagram |-> Some(InstagramUrl(shortcode)),
                        download |-> Some(DownloadUrl(shortcode))]
                 u1 == IF g.img_src # None THEN Put(u0, "image", g.img_src) ELSE u0
                 u2 == IF g.video_poster # None THEN Put(u1, "thumbnail", g.video_poster)
                       ELSE u1
                 u3 == IF is_video /\ g.video_src # None THEN Put(u2, "video", g.video_src)
                       ELSE u2
             IN  [post_data |-> Some(Put(d2, "urls", u3)), error |-> None]

(***************************************************************************)
(* The state.                                                              *)
(***************************************************************************)
VARIABLES
    endpoint,         \* the route of the request being handled
    url,              \* its url parameter
    pc,               \* where the handler is
    shortcode,        \* the handler's local shortcode
    func,             \* the function the retry decorator wraps
    max_retries,      \* the decorator's arguments
    initial_backoff,
    retries,          \* the wrapper's counter
    result,           \* what the wrapper returned
    raised,           \* the failure the wrapper let through
    response,         \* the answer to the request
    log,              \* the calls made and the sleeps taken, in order
    probe,            \* the last application of a pure function
    cookie_file,      \* whether cookie.txt exists now
    has_cookies,      \* the module's has_cookies, set when the module is loaded
    cookiefile,       \* what os.path.exists('cookie.txt') told the request
    stream            \* the body being relayed by stream_media

vars == <<endpoint, url, pc, shortcode, func, max_retries, initial_backoff, retries,
          result, raised, response, log, probe, cookie_file, has_cookies, cookiefile,
          stream>>

\* the defaults of retry_with_backoff
DefaultMaxRetries == 3
DefaultInitialBackoff == 2

NoResponse == [code |-> 0, kind |-> "none", body |-> EmptyDict]
NoProbe == [fn |-> "none", valid |-> FALSE, code |-> <<>>, code_slash |-> <<>>]
\* no upstream body is open
NoStream == [upstream |-> <<>>, read |-> 0, held |-> None, sent |-> <<>>, open |-> FALSE]

CallEvent(f, o) == [ev |-> "call", f |-> f, out |-> o, secs |-> 0]
SleepEvent(n) ==
    [ev |-> "sleep", f |-> "time.sleep",
     out |-> [kind |-> "none", value |-> None, msg |-> <<>>], secs |-> n]

Returned(v) == [kind |-> "return", value |-> Some(v), msg |-> <<>>]
Raised(m) == [kind |-> "raise", value |-> None, msg |-> m]

(***************************************************************************)
(* retry_with_backoff                                                      *)
(***************************************************************************)
\* the exponent taken one too high
SleepTimeDoubled(backoff, r) == backoff * (2 ^ r)

\* sleep_time = backoff * (2 ** (retries - 1)), retries already incremented
SleepTime(backoff, r) == backoff * (2 ^ (r - 1))

\* one pass of the while loop, the call having ended as o: where the wrapper
\* goes, its counter, the sleeps it takes
WrapperTry(maxr, backoff, r, o) ==
    IF o.kind = "return"
    THEN [pc |-> "wrapper_returned", retries |-> r, sleeps |-> <<>>,
          result |-> o.value, raised |-> <<>>]
    ELSE IF IsRateLimitShaped(o.msg)
    THEN IF r + 1 >= maxr
         THEN [pc |-> "wrapper_raised", retries |-> r + 1, sleeps |-> <<>>,
               result |-> None, raised |-> o.msg]
         ELSE [pc |-> "wrapper", retries |-> r + 1,
               sleeps |-> <<SleepTime(backoff, r + 1)>>,
               result |-> None, raised |-> <<>>]
    ELSE [pc |-> "wrapper_raised", retries |-> r, sleeps |-> <<>>,
          result |-> None, raised |-> o.msg]

\* the failures a wrapped function may raise, and what it may return
RaisedMessages == YtdlpErrors \cup EmbedErrors
GenericOutcomes == {Returned(<<"value">>)} \cup {Raised(m) : m \in RaisedMessages}

\* get_post_data_ytdlp without the try/except around its body: a failure of
\* ydl.extract_info reaches the wrapper
FuncOutcomesUncaught ==
    IF func = "get_post_data_ytdlp"
    THEN {IF up.kind = "raise" THEN Raised(up.msg)
          ELSE Returned(get_post_data_ytdlp(url[1], up)) : up \in YtdlpUpstream}
    ELSE GenericOutcomes

\* how a call of the wrapped function can end.  get_post_data_ytdlp catches
\* every exception of its body and returns the pair (None, message)
FuncOutcomes ==
    IF func = "get_post_data_ytdlp"
    THEN {Returned(get_post_data_ytdlp(url[1], up)) : up \in YtdlpUpstream}
    ELSE GenericOutcomes

\* the wrapper answering from a result it kept, the function not called
wrapper_attempt_cached ==
    /\ pc = "wrapper"
    /\ retries < max_retries
    /\ pc' = "wrapper_returned"
    /\ result' = Some(YtdlpFailure(MsgUnable))
    /\ UNCHANGED <<endpoint, url, shortcode, func, max_retries, initial_backoff,
                   retries, raised, response, log, probe, cookie_file, has_cookies,
                   cookiefile, stream>>

\* while retries < max_retries: try: return func(...) except ...
wrapper_attempt ==
    /\ pc = "wrapper"
    /\ retries < max_retries
    /\ \E o \in FuncOutcomes :
        LET w == WrapperTry(max_retries, initial_backoff, retries, o)
        IN  /\ pc' = w.pc
            /\ retries' = w.retries
            /\ result' = w.result
            /\ raised' = w.raised
            /\ log' = Append(log, CallEvent(func, o))
                          \o [i \in 1..Len(w.sleeps) |-> SleepEvent(w.sleeps[i])]
    /\ cookiefile' = IF func = "get_post_data_ytdlp" THEN Some(cookie_file) ELSE cookiefile
    /\ UNCHANGED <<endpoint, url, shortcode, func, max_retries, initial_backoff,
                   response, probe, cookie_file, has_cookies, stream>>

\* the loop ends without a call: the wrapper returns None
wrapper_exhausted ==
    /\ pc = "wrapper"
    /\ ~(retries < max_retries)
    /\ pc' = "wrapper_returned"
    /\ result' = None
    /\ UNCHANGED <<endpoint, url, shortcode, func, max_retries, initial_backoff,
                   retries, raised, response, log, probe, cookie_file, has_cookies,
                   cookiefile, stream>>

(***************************************************************************)
(* The handlers.                                                           *)
(***************************************************************************)
JsonError(code, text) ==
    [code |-> code, kind |-> "json", body |-> [error |-> text]]

\* if not url: 400; if not re.match(...): 400
ValidateUrl(u) ==
    IF ~Truthy(u) THEN "required"
    ELSE IF ~ReMatchInstagramUrl(u[1]) THEN "invalid"
    ELSE "ok"

Rejection(verdict) ==
    IF verdict = "required" THEN JsonError(400, <<"URL parameter is required">>)
    ELSE JsonError(400, <<"Invalid Instagram URL">>)

\* a request arrives while no other is being handled
Arrive(e, u) ==
    /\ pc = "idle"
    /\ endpoint' = e
    /\ url' = u
    /\ log' = <<>>
    /\ result' = None
    /\ raised' = <<>>
    /\ retries' = 0
    /\ cookiefile' = None
    /\ stream' = NoStream
    /\ UNCHANGED <<func, max_retries, initial_backoff, probe, cookie_file, has_cookies>>

\* get_data up to the call of get_post_data_ytdlp
get_data_start ==
    \E u \in RequestUrls :
        /\ Arrive("data", u)
        /\ shortcode' = None
        /\ IF ValidateUrl(u) = "ok"
           THEN pc' = "wrapper" /\ response' = NoResponse
           ELSE pc' = "done" /\ response' = Rejection(ValidateUrl(u))

\* the second strategy tried whatever the first returned
AlwaysFallback(error) == TRUE

\* if error: the first strategy failed, the second is tried
NeedsFallback(error) == Truthy(error)

\* the error answer carrying the message of the first strategy
DataFailureFirstError(error, new_error) ==
    [code |-> 500, kind |-> "json",
     body |-> [status |-> <<"error">>, error |-> error[1],
               message |-> <<"Failed to extract data from Instagram.">>,
               status_code |-> <<"error">>]]

\* the error answer of get_data
DataFailure(error, new_error) ==
    [code |-> 500, kind |-> "json",
     body |-> [status |-> <<"error">>, error |-> new_error[1],
               message |-> <<"Failed to extract data from Instagram.">>,
               status_code |-> <<"error">>]]

\* the success answer of get_data, the download link set again
DataSuccess(post_data) ==
    LET pd == post_data[1]
        data == IF pd # EmptyDict /\ Has(pd, "shortcode") /\ Has(pd, "urls")
                THEN Put(pd, "urls",
                         Put(pd["urls"], "download", Some(DownloadUrl(pd["shortcode"]))))
                ELSE pd
    IN  [code |-> 200, kind |-> "json", body |-> [status |-> <<"success">>, data |-> data]]

\* get_data from the return of get_post_data_ytdlp on
get_data_finish ==
    /\ pc = "wrapper_returned"
    /\ endpoint = "data"
    /\ LET first == result[1]
       IN  IF NeedsFallback(first.error)
           THEN \E up \in EmbedUpstream :
                    LET second == get_post_data_no_login(url[1], up)
                    IN  /\ log' = Append(log, CallEvent("get_post_data_no_login",
                                                        Returned(second)))
                        /\ response' = IF Truthy(second.error)
                                       THEN DataFailure(first.error, second.error)
                                       ELSE DataSuccess(second.post_data)
           ELSE /\ log' = log
                /\ response' = DataSuccess(first.post_data)
    /\ pc' = "done"
    /\ UNCHANGED <<endpoint, url, shortcode, func, max_retries, initial_backoff,
                   retries, result, raised, probe, cookie_file, has_cookies, cookiefile,
                   stream>>

\* get_direct_data up to the call of get_post_data_ytdlp
get_direct_data_start ==
    \E u \in RequestUrls :
        /\ Arrive("direct-data", u)
        /\ IF ValidateUrl(u) = "ok"
           THEN /\ pc' = "wrapper"
                /\ response' = NoResponse
                /\ shortcode' = Some(extract_shortcode_from_url(u[1]))
           ELSE /\ pc' = "done"
                /\ response' = Rejection(ValidateUrl(u))
                /\ shortcode' = None

\* the error answer of get_direct_data
DirectFailure(error) ==
    [code |-> 500, kind |-> "json",
     body |-> [status |-> <<"error">>, error |-> error[1]]]

\* the success answer of get_direct_data
DirectSuccess(post_data, code) ==
    LET pd == post_data[1]
        data == IF pd # EmptyDict /\ Has(pd, "urls")
                THEN Put(pd, "urls", Put(pd["urls"], "download", Some(DownloadUrl(code))))
                ELSE pd
    IN  [code |-> 200, kind |-> "json", body |-> [status |-> <<"success">>, data |-> data]]

\* get_direct_data from the return of get_post_data_ytdlp on
get_direct_data_finish ==
    /\ pc = "wrapper_returned"
    /\ endpoint = "direct-data"
    /\ LET first == result[1]
       IN  IF NeedsFallback(first.error)
           THEN \E up \in EmbedUpstream :
                    LET second == get_post_data_no_login(url[1], up)
                    IN  /\ log' = Append(log, CallEvent("get_post_data_no_login",
                                                        Returned(second)))
                        /\ response' = IF Truthy(second.error)
                                       THEN DirectFailure(second.error)
                                       ELSE DirectSuccess(second.post_data, shortcode[1])
           ELSE /\ log' = log
                /\ response' = DirectSuccess(first.post_data, shortcode[1])
    /\ pc' = "done"
    /\ UNCHANGED <<endpoint, url, shortcode, func, max_retries, initial_backoff,
                   retries, result, raised, probe, cookie_file, has_cookies, cookiefile,
                   stream>>

(***************************************************************************)
(* download_media and stream_media                                         *)
(***************************************************************************)
\* the last of the formats of the greatest height taken on ties
RECURSIVE BestCombinedLastOnTies(_, _, _)
BestCombinedLastOnTies(formats, best, best_height) ==
    IF formats = <<>> THEN best
    ELSE LET fmt == Head(formats)
         IN  IF /\ Get(fmt, "ext", None) = Some("mp4")
                /\ Get(fmt, "acodec", None) # Some("none")
                /\ Get(fmt, "vcodec", None) # Some("none")
                /\ Get(fmt, "height", 0) >= best_height
             THEN BestCombinedLastOnTies(Tail(formats), Some(fmt), Get(fmt, "height", 0))
             ELSE BestCombinedLastOnTies(Tail(formats), best, best_height)

\* the mp4 format with sound and picture that has the greatest height
RECURSIVE BestCombinedFrom(_, _, _)
BestCombinedFrom(formats, best, best_height) ==
    IF formats = <<>> THEN best
    ELSE LET fmt == Head(formats)
         IN  IF /\ Get(fmt, "ext", None) = Some("mp4")
                /\ Get(fmt, "acodec", None) # Some("none")
                /\ Get(fmt, "vcodec", None) # Some("none")
                /\ Get(fmt, "height", 0) > best_height
             THEN BestCombinedFrom(Tail(formats), Some(fmt), Get(fmt, "height", 0))
             ELSE BestCombinedFrom(Tail(formats), best, best_height)

\* the url of the first requested format with a picture, else the default
RECURSIVE RequestedUrl(_, _)
RequestedUrl(formats, default) ==
    IF formats = <<>> THEN default
    ELSE IF Get(Head(formats), "vcodec", None) # Some("none")
    THEN Get(Head(formats), "url", None)
    ELSE RequestedUrl(Tail(formats), default)

\* the last entry of a carousel taken for the media entry
MediaInfoLast(info) ==
    IF Get(info, "_type", None) = Some("playlist") /\ Get(info, "entries", <<>>) # <<>>
    THEN info["entries"][Len(info["entries"])] ELSE info

\* the media entry: the first entry of a carousel that has entries
MediaInfo(info) ==
    IF Get(info, "_type", None) = Some("playlist") /\ Get(info, "entries", <<>>) # <<>>
    THEN info["entries"][1] ELSE info

\* the URL to stream for a video
VideoMediaUrl(mi) ==
    LET direct == Get(mi, "url", None)
        formats == Get(mi, "formats", <<>>)
    IN  IF /\ Truthy(direct)
           /\ Get(mi, "acodec", None) # Some("none")
           /\ Get(mi, "vcodec", None) # Some("none")
        THEN direct
        ELSE IF formats # <<>>
        THEN LET combined == BestCombinedFrom(formats, None, -1)
             IN  IF combined # None THEN Get(combined[1], "url", None)
                 ELSE IF Has(mi, "requested_formats")
                 THEN RequestedUrl(mi["requested_formats"], direct)
                 ELSE IF BestMp4(formats) # None
                 THEN Get(BestMp4(formats)[1], "url", None)
                 ELSE direct
        ELSE direct

\* content type and URL of the media entry
SelectMedia(mi) ==
    IF Get(mi, "ext", None) = Some("mp4")
    THEN [content_type |-> "video/mp4", media_url |-> VideoMediaUrl(mi)]
    ELSE [content_type |-> "image/jpeg", media_url |-> Get(mi, "url", None)]

\* what ydl.extract_info answers under 'format': 'bestvideo+bestaudio/best'
Fmt240 == [ext |-> Some("mp4"), height |-> 240, url |-> Some(<<"cdn/f240.mp4">>),
           acodec |-> Some("aac"), vcodec |-> Some("h264")]
Fmt360b == [ext |-> Some("mp4"), height |-> 360, url |-> Some(<<"cdn/f360b.mp4">>),
            acodec |-> Some("aac"), vcodec |-> Some("h264")]
Fmt480v == [ext |-> Some("mp4"), height |-> 480, url |-> Some(<<"cdn/f480v.mp4">>),
            acodec |-> Some("none"), vcodec |-> Some("h264")]
FmtAudio == [ext |-> Some("m4a"), url |-> Some(<<"cdn/audio.m4a">>),
             acodec |-> Some("aac"), vcodec |-> Some("none")]
FmtWebm == [ext |-> Some("webm"), height |-> 720, url |-> Some(<<"cdn/f720.webm">>),
            acodec |-> Some("opus"), vcodec |-> Some("vp9")]
DirectNoSound == [id |-> Some(<<"v3">>), ext |-> Some("mp4"), url |-> Some(<<"cdn/d.mp4">>),
                  acodec |-> Some("none"), vcodec |-> Some("h264")]

InfoCombinedTie == Put(DirectNoSound, "formats", <<Fmt240, Fmt360, Fmt360b, Fmt720>>)
InfoRequested ==
    Put(Put(DirectNoSound, "formats", <<Fmt720, FmtAudio>>),
        "requested_formats", <<FmtAudio, Fmt720>>)
InfoRequestedAudioOnly ==
    Put(Put(DirectNoSound, "formats", <<Fmt720, FmtAudio>>),
        "requested_formats", <<FmtAudio>>)
InfoVideoOnly == Put(DirectNoSound, "formats", <<Fmt480v, Fmt720>>)
InfoNoMp4 == Put(DirectNoSound, "formats", <<FmtWebm>>)
InfoRequestedNoFormats == Put(DirectNoSound, "requested_formats", <<Fmt720>>)
InfoNoUrl == [id |-> Some(<<"v4">>), ext |-> Some("mp4")]
InfoEmptyUrl == [id |-> Some(<<"v5">>), ext |-> Some("mp4"), url |-> Some(<<>>)]

MediaInfos ==
    YtdlpInfos \cup {InfoCombinedTie, InfoRequested, InfoRequestedAudioOnly, InfoVideoOnly,
                     InfoNoMp4, InfoRequestedNoFormats, InfoNoUrl, InfoEmptyUrl}

MediaUpstream ==
    {[kind |-> "info", info |-> i, msg |-> <<>>] : i \in MediaInfos}
        \cup {[kind |-> "raise", info |-> EmptyDict, msg |-> m] : m \in {Msg429, MsgLogin}}

\* req.iter_content(chunk_size=8192)
ChunkSize == 8192

\* the greatest number of chunks of an upstream body
MaxBodyChunks == 2

\* the lengths of the upstream bodies, in bytes
BodySizes == {0, (MaxBodyChunks - 1) * ChunkSize + 1}

\* the chunks iter_content cuts a body of n bytes into
IterContent(n) ==
    [i \in 1..((n + ChunkSize - 1) \div ChunkSize) |->
        [offset |-> (i - 1) * ChunkSize,
         size |-> IF i * ChunkSize <= n THEN ChunkSize ELSE n - (i - 1) * ChunkSize]]

MsgConnection == <<"Connection", "refused">>

\* requests.get(url, stream=True) and raise_for_status
StreamUpstream ==
    {[kind |-> "ok", msg |-> <<>>, size |-> n] : n \in BodySizes}
        \cup {[kind |-> "raise", msg |-> m, size |-> 0] : m \in {Http404, MsgConnection}}

\* a streaming answer whatever the fetch did
StreamUnchecked(media_url, content_type, fetch) ==
    [code |-> 200, kind |-> "stream",
     body |-> [content_type |-> content_type, disposition |-> "attachment",
               source |-> media_url]]

\* stream_media: a streaming answer, or 500 when the fetch fails
stream_media(media_url, content_type, fetch) ==
    IF fetch.kind = "raise" THEN JsonError(500, fetch.msg)
    ELSE [code |-> 200, kind |-> "stream",
          body |-> [content_type |-> content_type, disposition |-> "attachment",
                    source |-> media_url]]

\* the open upstream response the generator of stream_media reads from
OpenStream(fetch) ==
    IF fetch.kind = "raise" THEN NoStream
    ELSE [upstream |-> IterContent(fetch.size), read |-> 0, held |-> None, sent |-> <<>>,
          open |-> TRUE]

\* both media handlers from the look for cookie.txt on: yt-dlp is asked for
\* the post, the media entry and its URL are chosen and stream_media is called
ResolveAndStream ==
    /\ cookiefile' = Some(cookie_file)
    /\ \E up \in MediaUpstream :
        IF up.kind = "raise"
        THEN /\ log' = Append(log, CallEvent("ydl.extract_info", Raised(up.msg)))
             /\ response' = JsonError(500, up.msg)
             /\ stream' = NoStream
             /\ pc' = "done"
        ELSE LET m == SelectMedia(MediaInfo(up.info))
                 called == Append(log, CallEvent("ydl.extract_info", Returned(up.info)))
             IN  IF ~Truthy(m.media_url)
                 THEN /\ log' = called
                      /\ response' = JsonError(500, <<"No media URL found">>)
                      /\ stream' = NoStream
                      /\ pc' = "done"
                 ELSE \E fetch \in StreamUpstream :
                          /\ log' = Append(called,
                                           CallEvent("requests.get",
                                                     IF fetch.kind = "raise"
                                                     THEN Raised(fetch.msg)
                                                     ELSE Returned(m.media_url[1])))
                          /\ response' = stream_media(m.media_url[1], m.content_type, fetch)
                          /\ stream' = OpenStream(fetch)
                          /\ pc' = IF fetch.kind = "raise" THEN "done" ELSE "streaming"

\* download_media up to the call of yt-dlp
download_media_start ==
    \E u \in RequestUrls :
        /\ Arrive("download", u)
        /\ IF ValidateUrl(u) = "ok"
           THEN /\ pc' = "download"
                /\ response' = NoResponse
                /\ shortcode' = Some(extract_shortcode_from_url(u[1]))
           ELSE /\ pc' = "done"
                /\ response' = Rejection(ValidateUrl(u))
                /\ shortcode' = None

\* download_media from the look for cookie.txt on
download_media_finish ==
    /\ pc = "download"
    /\ ResolveAndStream
    /\ UNCHANGED <<endpoint, url, shortcode, func, max_retries, initial_backoff,
                   retries, result, raised, probe, cookie_file, has_cookies>>

\* the <shortcode> of the route /api/media/stream/<shortcode>
Shortcodes == {<<"a">>, <<"a", "b">>}

\* stream_media_by_shortcode: the route is matched, the handler is entered
stream_media_by_shortcode_start ==
    \E s \in Shortcodes :
        /\ Arrive("stream", None)
        /\ shortcode' = Some(s)
        /\ pc' = "stream"
        /\ response' = NoResponse

\* stream_media_by_shortcode from the look for cookie.txt on
stream_media_by_shortcode_finish ==
    /\ pc = "stream"
    /\ ResolveAndStream
    /\ UNCHANGED <<endpoint, url, shortcode, func, max_retries, initial_backoff,
                   retries, result, raised, probe, cookie_file, has_cookies>>

\* generate(): the for loop takes the next chunk of the upstream body
generate_read ==
    /\ pc = "streaming"
    /\ stream.held = None
    /\ stream.read < Len(stream.upstream)
    /\ stream' = [stream EXCEPT !.read = @ + 1,
                                !.held = Some(stream.upstream[stream.read + 1])]
    /\ UNCHANGED <<endpoint, url, pc, shortcode, func, max_retries, initial_backoff,
                   retries, result, raised, response, log, probe, cookie_file,
                   has_cookies, cookiefile>>

\* the chunk put before the chunks already handed over
generate_yield_first ==
    /\ pc = "streaming"
    /\ stream.held # None
    /\ stream' = [stream EXCEPT !.held = None, !.sent = <<stream.held[1]>> \o @]
    /\ UNCHANGED <<endpoint, url, pc, shortcode, func, max_retries, initial_backoff,
                   retries, result, raised, response, log, probe, cookie_file,
                   has_cookies, cookiefile>>

\* generate(): yield chunk
generate_yield ==
    /\ pc = "streaming"
    /\ stream.held # None
    /\ stream' = [stream EXCEPT !.held = None, !.sent = Append(@, stream.held[1])]
    /\ UNCHANGED <<endpoint, url, pc, shortcode, func, max_retries, initial_backoff,
                   retries, result, raised, response, log, probe, cookie_file,
                   has_cookies, cookiefile>>

\* generate(): the upstream body is exhausted, or reading it fails
generate_end ==
    /\ pc = "streaming"
    /\ stream.held = None
    /\ pc' = "done"
    /\ stream' = [stream EXCEPT !.open = FALSE]
    /\ UNCHANGED <<endpoint, url, shortcode, func, max_retries, initial_backoff,
                   retries, result, raised, response, log, probe, cookie_file,
                   has_cookies, cookiefile>>

(***************************************************************************)
(* health_check and the cookie file                                        *)
(***************************************************************************)
\* the answer telling of an error when cookie.txt is missing
HealthBodyNeedsCookie(present) ==
    [status |-> IF present THEN <<"ok">> ELSE <<"error">>, version |-> <<"2.0.0">>,
     using_ytdlp |-> TRUE, cookie_file |-> present]

\* the answer of /health
HealthBody(present) ==
    [status |-> <<"ok">>, version |-> <<"2.0.0">>, using_ytdlp |-> TRUE,
     cookie_file |-> present]

health_check ==
    /\ Arrive("health", None)
    /\ shortcode' = None
    /\ response' = [code |-> 200, kind |-> "json", body |-> HealthBody(cookie_file)]
    /\ pc' = "done"

\* cookie.txt is put in place or taken away while the process runs.  Every
\* handler looks for the file at most once, so a change during a request is
\* to the request a change before it or a change after it
cookie_file_changes ==
    /\ pc = "idle"
    /\ cookie_file' = ~cookie_file
    /\ UNCHANGED <<endpoint, url, pc, shortcode, func, max_retries, initial_backoff,
                   retries, result, raised, response, log, probe, has_cookies,
                   cookiefile, stream>>

(***************************************************************************)
(* The service: requests are handled one after the other.                  *)
(***************************************************************************)
Init ==
    /\ endpoint = "none"
    /\ url = None
    /\ pc = "idle"
    /\ shortcode = None
    /\ func = "get_post_data_ytdlp"
    /\ max_retries = DefaultMaxRetries
    /\ initial_backoff = DefaultInitialBackoff
    /\ retries = 0
    /\ result = None
    /\ raised = <<>>
    /\ response = NoResponse
    /\ log = <<>>
    /\ probe = NoProbe
    /\ cookie_file \in BOOLEAN
    /\ has_cookies = cookie_file
    /\ cookiefile = None
    /\ stream = NoStream

\* the answer is sent and what the request held is dropped
send_response ==
    /\ pc = "done"
    /\ pc' = "idle"
    /\ endpoint' = "none"
    /\ url' = None
    /\ shortcode' = None
    /\ retries' = 0
    /\ result' = None
    /\ raised' = <<>>
    /\ response' = NoResponse
    /\ log' = <<>>
    /\ cookiefile' = None
    /\ stream' = NoStream
    /\ UNCHANGED <<func, max_retries, initial_backoff, probe, cookie_file, has_cookies>>

Next ==
    \/ get_data_start
    \/ get_direct_data_start
    \/ download_media_start
    \/ wrapper_attempt
    \/ get_data_finish
    \/ get_direct_data_finish
    \/ download_media_finish
    \/ stream_media_by_shortcode_start
    \/ stream_media_by_shortcode_finish
    \/ generate_read
    \/ generate_yield
    \/ generate_end
    \/ health_check
    \/ cookie_file_changes
    \/ send_response

Spec == Init /\ [][Next]_vars

(***************************************************************************)
(* The retry decorator around a function that may raise.                   *)
(***************************************************************************)
\* greatest max_retries and initial_backoff the decorator is given
MaxMaxRetries == 4
MaxInitialBackoff == 2

InitRetry ==
    /\ endpoint = "none"
    /\ url = None
    /\ pc = "wrapper"
    /\ shortcode = None
    /\ func = "f"
    /\ max_retries \in 0..MaxMaxRetries
    /\ initial_backoff \in 1..MaxInitialBackoff
    /\ retries = 0
    /\ result = None
    /\ raised = <<>>
    /\ response = NoResponse
    /\ log = <<>>
    /\ probe = NoProbe
    /\ cookie_file = FALSE
    /\ has_cookies = cookie_file
    /\ cookiefile = None
    /\ stream = NoStream

NextRetry == wrapper_attempt \/ wrapper_exhausted

SpecRetry == InitRetry /\ [][NextRetry]_vars

(***************************************************************************)
(* The validator and the shortcode extraction applied to URLs.             *)
(***************************************************************************)
InitUrl ==
    /\ endpoint = "none"
    /\ url \in {Some(u) : u \in Urls}
    /\ pc = "pure"
    /\ shortcode = None
    /\ func = "get_post_data_ytdlp"
    /\ max_retries = DefaultMaxRetries
    /\ initial_backoff = DefaultInitialBackoff
    /\ retries = 0
    /\ result = None
    /\ raised = <<>>
    /\ response = NoResponse
    /\ log = <<>>
    /\ probe = NoProbe
    /\ cookie_file = FALSE
    /\ has_cookies = cookie_file
    /\ cookiefile = None
    /\ stream = NoStream

apply_validator ==
    /\ pc = "pure"
    /\ probe' = [fn |-> "validate", valid |-> ValidateUrl(url) = "ok",
                 code |-> <<>>, code_slash |-> <<>>]
    /\ UNCHANGED <<endpoint, url, pc, shortcode, func, max_retries, initial_backoff,
                   retries, result, raised, response, log, cookie_file, has_cookies,
                   cookiefile, stream>>

\* the shortcode of the URL, and of the URL with a slash appended
apply_extract ==
    /\ pc = "pure"
    /\ probe' = [fn |-> "extract", valid |-> ValidateUrl(url) = "ok",
                 code |-> extract_shortcode_from_url(url[1]),
                 code_slash |-> extract_shortcode_from_url(url[1] \o Slash)]
    /\ UNCHANGED <<endpoint, url, pc, shortcode, func, max_retries, initial_backoff,
                   retries, result, raised, response, log, cookie_file, has_cookies,
                   cookiefile, stream>>

NextUrl == apply_validator \/ apply_extract

SpecUrl == InitUrl /\ [][NextUrl]_vars

(***************************************************************************)
(* What the claims speak of.                                               *)
(***************************************************************************)
Ytdlp == "get_post_data_ytdlp"
NoLogin == "get_post_data_no_login"
DataEndpoints == {"data", "direct-data"}
\* the endpoints that take a url parameter
UrlEndpoints == {"data", "direct-data", "download"}

IsCall(i, f) == log[i].ev = "call" /\ log[i].f = f
CallsOf(f) == {i \in 1..Len(log) : IsCall(i, f)}
SleepsTaken == {i \in 1..Len(log) : log[i].ev = "sleep"}
\* the pair (post_data, error) the i-th entry of the log returned
PairOf(i) == log[i].out.value[1]
StrategyFailed(i) == PairOf(i).error # None
BothFailed ==
    /\ Len(log) = 2
    /\ IsCall(1, Ytdlp) /\ StrategyFailed(1)
    /\ IsCall(2, NoLogin) /\ StrategyFailed(2)

\* the beginnings of the shape http(s)://[www.]instagram.com/(p|reel|tv)/
ShapeHeads ==
    {sch \o ColonSlashSlash \o w \o InstagramCom \o Slash \o k \o Slash :
        sch \in {Http, Https}, w \in {<<>>, WwwDot}, k \in {KindP, KindReel, KindTv}}

\* what follows the head p in s
AfterHead(s, p) == SubSeq(s, Len(p) + 1, Len(s))

\* <non-empty segment>[/...]
SegmentAndRest(t) == t # <<>> /\ t[1] # "/"

\* <non-empty segment>[/<rest>], no line feed in <rest> but a last one
SegmentAndRestOnOneLine(t) ==
    /\ SegmentAndRest(t)
    /\ \A i \in 1..Len(t) : \A j \in (i + 1)..Len(t) :
           (t[i] = "/" /\ t[j] = NL) => j = Len(t)

ShapeOriginal(s) ==
    \E p \in ShapeHeads : MatchesAt(s, 0, p) /\ SegmentAndRest(AfterHead(s, p))

ShapeAmended(s) ==
    \E p \in ShapeHeads : MatchesAt(s, 0, p) /\ SegmentAndRestOnOneLine(AfterHead(s, p))

\* C1 (as claimed): a request of /api/data, /api/direct-data or /api/download
\* is answered 400 with no strategy invoked exactly when its url parameter is
\* missing, empty or not of the shape
\* http(s)://[www.]instagram.com/(p|reel|tv)/<non-empty segment>[/...].
C1_Original ==
    (pc = "done" /\ endpoint \in UrlEndpoints) =>
        ((response.code = 400 /\ log = <<>>) <=> (~Truthy(url) \/ ~ShapeOriginal(url[1])))

\* C1 (amended): a request of /api/data, /api/direct-data or /api/download is
\* answered 400 with no strategy invoked exactly when its url parameter is
\* missing, empty or not of the shape
\* http(s)://[www.]instagram.com/(p|reel|tv)/<non-empty segment>[/<rest>] with
\* no line feed in <rest> other than a last one; a request of the shape is
\* never answered 400 and does invoke yt-dlp; the three endpoints accept the
\* same URLs.
C1_Amended ==
    /\ (pc = "done" /\ endpoint \in UrlEndpoints) =>
        /\ (response.code = 400 /\ log = <<>>) <=> (~Truthy(url) \/ ~ShapeAmended(url[1]))
        /\ (response.code # 400 /\ log # <<>>) <=> (Truthy(url) /\ ShapeAmended(url[1]))
    /\ (pc \in {"wrapper", "wrapper_returned", "download", "streaming"}
            /\ endpoint \in UrlEndpoints) =>
        Truthy(url) /\ ShapeAmended(url[1])

\* a URL of the claimed shape with a line feed behind the segment's slash is
\* answered 400
C1_Witness ==
    /\ pc = "done"
    /\ endpoint = "download"
    /\ response.code = 400
    /\ log = <<>>
    /\ Truthy(url)
    /\ ShapeOriginal(url[1])

\* the path segment that follows /p/, /reel/ or /tv/
RECURSIVE SegmentOf(_)
SegmentOf(t) ==
    IF t = <<>> \/ Head(t) \in {"/", "?", "#"} THEN <<>>
    ELSE <<Head(t)>> \o SegmentOf(Tail(t))

PostSegment(s) ==
    LET p == CHOOSE q \in ShapeHeads : MatchesAt(s, 0, q)
    IN  SegmentOf(AfterHead(s, p))

\* C2: for every URL the validator accepts, extract_shortcode_from_url
\* returns the path segment that directly follows /p/, /reel/ or /tv/.
C2_Claim ==
    (probe.fn = "extract" /\ probe.valid) => probe.code = PostSegment(url[1])

\* the part of the URL before its query string
RawPath(s) == BeforeFirst(BeforeFirst(s, "#"), "?")
\* the last path segment of the URL holds a ";"
ParamsInLastSegment(s) == FindFrom(RawPath(s), ";", RFind(RawPath(s), "/") + 1) >= 0
PathEndsInSlash(s) == UrlPath(s) # <<>> /\ UrlPath(s)[Len(UrlPath(s))] = "/"

\* C3 (as claimed, on the URLs the validator accepts): for every URL u whose
\* path does not end in "/",
\* extract_shortcode_from_url(u) = extract_shortcode_from_url(u + "/").
C3_Original ==
    (probe.fn = "extract" /\ probe.valid /\ ~PathEndsInSlash(url[1]))
        => probe.code = probe.code_slash

\* C3 (amended): for every URL u whose path does not end in "/" and whose
\* last path segment holds no ";",
\* extract_shortcode_from_url(u) = extract_shortcode_from_url(u + "/").
C3_Amended ==
    (probe.fn = "extract" /\ ~PathEndsInSlash(url[1]) /\ ~ParamsInLastSegment(url[1]))
        => probe.code = probe.code_slash

\* an accepted URL with no trailing slash whose shortcode was extracted
C3_Witness ==
    /\ probe.fn = "extract"
    /\ probe.valid
    /\ ~PathEndsInSlash(url[1])
    /\ ~ParamsInLastSegment(url[1])
    /\ probe.code = <<"a", "b">>
    /\ probe.code_slash = <<"a", "b">>

\* C4: in /api/data and /api/direct-data yt-dlp is tried first; the embed
\* scrape is invoked only right after yt-dlp reported a failure, never after
\* its success; when yt-dlp succeeds its record is the answer; when yt-dlp
\* fails and the scrape succeeds the answer is a success with the scrape's
\* record.
C4_Chain ==
    endpoint \in DataEndpoints =>
        /\ log # <<>> => IsCall(1, Ytdlp)
        /\ \A i \in CallsOf(NoLogin) : i = 2 /\ IsCall(1, Ytdlp) /\ StrategyFailed(1)
        /\ \A i \in CallsOf(Ytdlp) : ~StrategyFailed(i) => i = Len(log)
        /\ (pc = "done" /\ response.code # 400) =>
               /\ IsCall(1, Ytdlp)
               /\ ~StrategyFailed(1) =>
                      /\ response.code = 200
                      /\ response.body.data = PairOf(1).post_data[1]
               /\ StrategyFailed(1) => Len(log) = 2 /\ IsCall(2, NoLogin)
               /\ (StrategyFailed(1) /\ ~StrategyFailed(2)) =>
                      /\ response.code = 200
                      /\ response.body.status = <<"success">>
                      /\ response.body.data = PairOf(2).post_data[1]

\* yt-dlp failed rate-limited, the scrape succeeded and its record is sent
C4_Witness ==
    /\ endpoint = "data"
    /\ pc = "done"
    /\ Len(log) = 2
    /\ PairOf(1).error = Some(<<"yt-dlp", "error:">> \o Msg429)
    /\ ~StrategyFailed(2)
    /\ response.code = 200
    /\ response.body.data = PairOf(2).post_data[1]

\* C5: in /api/data, when yt-dlp fails rate-limited on every call and the
\* scrape succeeds, yt-dlp is attempted max_retries times with waits of 2 s
\* and 4 s between the attempts before the scrape is tried.
C5_Claim ==
    (/\ endpoint = "data"
     /\ pc = "done"
     /\ CallsOf(NoLogin) # {}
     /\ \A i \in CallsOf(Ytdlp) : StrategyFailed(i) /\ IsRateLimitShaped(PairOf(i).error[1])
     /\ \A i \in CallsOf(NoLogin) : ~StrategyFailed(i))
        => /\ Cardinality(CallsOf(Ytdlp)) = max_retries
           /\ \E i, j \in SleepsTaken : i < j /\ log[i].secs = 2 /\ log[j].secs = 4

\* the failures that are rate-limit-shaped: the message holds "429",
\* "rate limit" or "please wait", letter case apart
RateLimitMessages == {Msg429, MsgRateLimit, MsgPleaseWait, Http429}
\* the failures that say credentials are required or invalid
IsAuthShaped(msg) == Contains(msg, <<"login", "required">>) \/ Contains(msg, <<"401">>)

RECURSIVE Pow2(_)
Pow2(n) == IF n <= 0 THEN 1 ELSE 2 * Pow2(n - 1)

\* the number of calls of the wrapped function among the first i entries
AttemptsUpTo(i) == Cardinality({j \in CallsOf(func) : j <= i})
RaisedRateLimit(i) == log[i].out.kind = "raise" /\ log[i].out.msg \in RateLimitMessages
RaisedOther(i) == log[i].out.kind = "raise" /\ log[i].out.msg \notin RateLimitMessages

\* C6: around a function that raises rate-limit-shaped failures the wrapper
\* makes at most max_retries calls; after the k-th failed attempt, k below
\* max_retries, it sleeps initial_backoff * 2^(k-1) seconds and then tries
\* again; a sleep only ever follows such a failure; when the max_retries-th
\* attempt fails too, the failure goes to the caller with no sleep after it.
C6_Backoff ==
    /\ Cardinality(CallsOf(func)) <= max_retries
    /\ \A i \in SleepsTaken :
           /\ i > 1
           /\ IsCall(i - 1, func)
           /\ RaisedRateLimit(i - 1)
           /\ log[i].secs = initial_backoff * Pow2(AttemptsUpTo(i) - 1)
    /\ \A i \in CallsOf(func) :
           RaisedRateLimit(i) =>
               IF AttemptsUpTo(i) < max_retries
               THEN i < Len(log) /\ log[i + 1].ev = "sleep"
               ELSE i = Len(log) /\ pc = "wrapper_raised" /\ raised = log[i].out.msg
    /\ (log # <<>> /\ log[Len(log)].ev = "sleep") =>
           pc = "wrapper" /\ retries < max_retries

\* three rate-limited attempts with the defaults: sleeps of 2 s and 4 s, and
\* the third failure let through
C6_Witness ==
    /\ func = "f"
    /\ max_retries = 3
    /\ initial_backoff = 2
    /\ pc = "wrapper_raised"
    /\ Len(log) = 5
    /\ log[2].ev = "sleep" /\ log[2].secs = 2
    /\ log[4].ev = "sleep" /\ log[4].secs = 4
    /\ RaisedRateLimit(5)

\* C7: a failure of the wrapped function that is not rate-limit-shaped goes
\* to the caller at once: no sleep and no further call follow it, however
\* many rate-limited attempts came before.
C7_Immediate ==
    \A i \in CallsOf(func) :
        RaisedOther(i) =>
            /\ i = Len(log)
            /\ pc = "wrapper_raised"
            /\ raised = log[i].out.msg

\* two rate-limited attempts, then a failure of another kind let through
C7_Witness ==
    /\ func = "f"
    /\ pc = "wrapper_raised"
    /\ Len(log) = 5
    /\ RaisedRateLimit(1) /\ RaisedRateLimit(3)
    /\ RaisedOther(5)
    /\ raised = MsgLogin

\* C8: for a valid URL, when both strategies fail /api/data and
\* /api/direct-data answer 500 with the message of the embed scrape, the
\* last strategy tried, as the error field; and they answer 500 only when
\* both strategies failed.
C8_AllFailed ==
    (endpoint \in DataEndpoints /\ pc = "done" /\ response.code # 400) =>
        /\ BothFailed =>
               /\ response.code = 500
               /\ response.body.status = <<"error">>
               /\ response.body.error = PairOf(2).error[1]
        /\ response.code = 500 => BothFailed

\* both strategies failed for /api/data and the answer is 500
C8_Witness ==
    /\ endpoint = "data"
    /\ pc = "done"
    /\ BothFailed
    /\ response.code = 500
    /\ response.body.error = <<"Error:">> \o Http404

\* C9: a failed /api/data or /api/direct-data request is answered 429 when
\* the resolution failed in the end on rate limiting, 401 when it failed on
\* credentials, and 500 otherwise.
C9_Claim ==
    (endpoint \in DataEndpoints /\ pc = "done" /\ BothFailed) =>
        response.code =
            IF PairOf(2).error[1] \in {<<"Error:">> \o m : m \in RateLimitMessages} THEN 429
            ELSE IF IsAuthShaped(PairOf(2).error[1]) THEN 401
            ELSE 500

\* C10: when yt-dlp reports that credentials are required, the chain
\* re-authenticates once and calls yt-dlp a second time before the scrape.
C10_Claim ==
    (/\ endpoint \in DataEndpoints
     /\ CallsOf(NoLogin) # {}
     /\ IsAuthShaped(PairOf(1).error[1]))
        => /\ Cardinality(CallsOf(Ytdlp)) = 2
           /\ Cardinality({i \in 1..Len(log) : log[i].ev = "reauthenticate"}) = 1

\* a failure answer: the request was refused or could not be served
IsFailureAnswer == pc = "done" /\ response.code \in {400, 500}

\* C11: every failure answer of every endpoint, 400 or 500, is a JSON body
\* that holds both a status field and an error field.
C11_Claim ==
    IsFailureAnswer =>
        /\ response.kind = "json"
        /\ Has(response.body, "status")
        /\ Has(response.body, "error")

\* the host of the request, as the caller wrote it
RequestHost == <<"http://host">>
\* <request host>/api/media/stream/<shortcode of the URL u>
StreamLinkOf(u) ==
    RequestHost \o <<"/api/media/stream/">> \o extract_shortcode_from_url(u)

DataAnswered200 == endpoint = "data" /\ pc = "done" /\ response.code = 200

\* C12: in a success answer of /api/data, data.urls.download is
\* <request host>/api/media/stream/<shortcode>, the shortcode being the one
\* extract_shortcode_from_url gives for the url parameter, whether the record
\* comes from yt-dlp or from the embed scrape.
C12_DownloadLink ==
    DataAnswered200 =>
        /\ Has(response.body.data, "urls")
        /\ Has(response.body.data["urls"], "download")
        /\ response.body.data["urls"]["download"] = Some(StreamLinkOf(url[1]))

\* a success answer built on the record of the embed scrape, for a URL with
\* a trailing slash
C12_Witness ==
    /\ DataAnswered200
    /\ Len(log) = 2
    /\ IsCall(2, NoLogin)
    /\ extract_shortcode_from_url(url[1]) = <<"a", "a">>
    /\ PathEndsInSlash(url[1])
    /\ response.body.data["urls"]["download"]
           = Some(<<"http://host", "/api/media/stream/", "a", "a">>)

\* the fields of the reduced shape
ReducedFields == {"shortcode", "is_video", "urls"}

\* C13: the data object of a success answer of /api/direct-data holds
\* shortcode, is_video and urls and nothing else: no owner, no other
\* enrichment.
C13_Claim ==
    (endpoint = "direct-data" /\ pc = "done" /\ response.code = 200) =>
        DOMAIN response.body.data = ReducedFields

\* the fetch of stream_media failed: requests.get or raise_for_status raised
FetchFailed ==
    \E i \in 1..Len(log) : IsCall(i, "requests.get") /\ log[i].out.kind = "raise"

\* C14: when the upstream fetch of stream_media fails, by a network error or
\* by a status that is not 2xx, the request is answered 500 with a JSON error
\* and no chunk of media is ever handed to the caller.
C14_NoPartialStream ==
    FetchFailed =>
        /\ pc = "done"
        /\ response.code = 500
        /\ response.kind = "json"
        /\ Has(response.body, "error")
        /\ stream = NoStream

\* the fetch was refused for /api/media/stream/<shortcode>
C14_Witness ==
    /\ endpoint = "stream"
    /\ FetchFailed
    /\ log[Len(log)].out.msg = MsgConnection
    /\ response = JsonError(500, MsgConnection)
    /\ stream.sent = <<>>

\* the chunk the generator holds, as a sequence of at most one chunk
HeldChunks == IF stream.held = None THEN <<>> ELSE <<stream.held[1]>>
\* the chunks read from the upstream body so far
ChunksRead == SubSeq(stream.upstream, 1, stream.read)

\* C15: the chunks handed to the caller, followed by the chunk in hand, are
\* the chunks read from the upstream body, in their order: none dropped,
\* doubled or moved; a chunk is read only when the one before it has been
\* handed over, so at most one chunk, of at most 8192 bytes, is in hand; when
\* the body has been read to its end the caller has all of it.
C15_Relay ==
    /\ stream.sent \o HeldChunks = ChunksRead
    /\ stream.read - Len(stream.sent) \in {0, 1}
    /\ stream.read - Len(stream.sent) = Len(HeldChunks)
    /\ \A i \in 1..Len(stream.sent) : stream.sent[i].size \in 1..ChunkSize
    /\ (pc = "done" /\ stream.read = Len(stream.upstream)) => stream.sent = stream.upstream
    /\ pc = "streaming" <=> stream.open

\* a body relayed to its end: full chunks, then a last chunk of one byte
C15_Witness ==
    /\ pc = "done"
    /\ response.kind = "stream"
    /\ Len(stream.sent) = MaxBodyChunks
    /\ stream.sent[1] = [offset |-> 0, size |-> ChunkSize]
    /\ stream.sent[Len(stream.sent)].size = 1
    /\ stream.sent = stream.upstream
    /\ stream.held = None

\* the calls that go to the platform or to a resolver strategy
OutboundCalls ==
    {i \in 1..Len(log) : log[i].ev = "call"}

HealthAnswered == endpoint = "health" /\ pc = "done"

\* C16: /health makes no call to the platform and invokes no resolver
\* strategy, and its answer is 200 with status "ok" whether cookie.txt is
\* there or not.
C16_Health ==
    HealthAnswered =>
        /\ OutboundCalls = {}
        /\ log = <<>>
        /\ cookiefile = None
        /\ stream = NoStream
        /\ response.code = 200
        /\ response.kind = "json"
        /\ response.body.status = <<"ok">>

\* /health answered while cookie.txt is missing
C16_Witness ==
    /\ HealthAnswered
    /\ ~cookie_file
    /\ response.body.status = <<"ok">>
    /\ response.body.cookie_file = FALSE

\* C17: a request runs with the cookie file exactly when the file was there
\* as the process started: what the resolver, the stream and download
\* handlers hand to yt-dlp, and the flag of /health, are the presence seen at
\* startup, whatever became of the file since.
C17_Claim ==
    /\ cookiefile # None => cookiefile = Some(has_cookies)
    /\ HealthAnswered => response.body.cookie_file = has_cookies

\* what lives as long as the process: the module's has_cookies and the
\* decorated function with the arguments of its decorator
ProcessWide == <<has_cookies, func, max_retries, initial_backoff>>

\* nothing of a request is left
NothingKept ==
    /\ endpoint = "none"
    /\ url = None
    /\ shortcode = None
    /\ retries = 0
    /\ result = None
    /\ raised = <<>>
    /\ response = NoResponse
    /\ log = <<>>
    /\ cookiefile = None
    /\ stream = NoStream

\* what /api/data answers, from what the strategies returned to it
DataAnswerFromLog ==
    IF ~StrategyFailed(1) THEN DataSuccess(PairOf(1).post_data)
    ELSE IF ~StrategyFailed(2) THEN DataSuccess(PairOf(2).post_data)
    ELSE DataFailure(PairOf(1).error, PairOf(2).error)

\* a valid /api/data request called yt-dlp itself, once, and its answer is
\* made of its url parameter and of what the upstream answered to it
ResolvedAfresh ==
    (endpoint = "data" /\ pc = "done" /\ response.code # 400) =>
        /\ IsCall(1, Ytdlp)
        /\ Cardinality(CallsOf(Ytdlp)) = 1
        /\ \E up \in YtdlpUpstream : PairOf(1) = get_post_data_ytdlp(url[1], up)
        /\ StrategyFailed(1) =>
               \E up \in EmbedUpstream : PairOf(2) = get_post_data_no_login(url[1], up)
        /\ response = DataAnswerFromLog

MediaEndpoints == {"stream", "download"}

\* a success answer of /api/media/stream/<shortcode> or /api/download
MediaAnswered == endpoint \in MediaEndpoints /\ response.kind = "stream"

\* what ydl.extract_info returned to the media handler
ResolvedInfo == log[1].out.value[1]

IsCarouselWithEntries(info) ==
    /\ Has(info, "_type")
    /\ info["_type"] = Some("playlist")
    /\ Has(info, "entries")
    /\ Len(info["entries"]) >= 1

\* the media entry of the claim: the first entry of a carousel
EntryOf(info) == IF IsCarouselWithEntries(info) THEN info["entries"][1] ELSE info

HasExtMp4(entry) == Has(entry, "ext") /\ entry["ext"] = Some("mp4")

\* C19: a success answer of /api/media/stream/<shortcode> or /api/download
\* carries Content-Disposition: attachment, and its Content-Type is video/mp4
\* exactly when the media entry has ext 'mp4' and image/jpeg otherwise, the
\* media entry of a carousel with entries being its first entry.
C19_ContentType ==
    MediaAnswered =>
        /\ response.code = 200
        /\ IsCall(1, "ydl.extract_info")
        /\ response.body.disposition = "attachment"
        /\ response.body.content_type =
               IF HasExtMp4(EntryOf(ResolvedInfo)) THEN "video/mp4" ELSE "image/jpeg"

\* a carousel whose first entry is an image and whose second is a video,
\* answered as image/jpeg
C19_Witness ==
    /\ MediaAnswered
    /\ endpoint = "stream"
    /\ IsCarouselWithEntries(ResolvedInfo)
    /\ ~HasExtMp4(ResolvedInfo["entries"][1])
    /\ HasExtMp4(ResolvedInfo["entries"][2])
    /\ response.body.content_type = "image/jpeg"
    /\ response.body.disposition = "attachment"

\* the entry's direct url, None when it has none
DirectUrlOf(e) == IF Has(e, "url") THEN e["url"] ELSE None
UrlOf(f) == IF Has(f, "url") THEN f["url"] ELSE None
HeightOf(f) == IF Has(f, "height") THEN f["height"] ELSE 0
CodecIsNone(e, k) == Has(e, k) /\ e[k] = Some("none")
HasSoundAndPicture(e) == ~CodecIsNone(e, "acodec") /\ ~CodecIsNone(e, "vcodec")
FormatsOf(e) == IF Has(e, "formats") THEN e["formats"] ELSE <<>>

\* among the formats fs, the places of those that are mp4, with both sound
\* and picture where both is asked
Mp4Places(fs, both) ==
    {i \in 1..Len(fs) :
        /\ Has(fs[i], "ext") /\ fs[i]["ext"] = Some("mp4")
        /\ both => HasSoundAndPicture(fs[i])}

\* of the places S, the one of the greatest height, the first on ties
Tallest(fs, S) ==
    CHOOSE i \in S :
        \A j \in S : HeightOf(fs[j]) < HeightOf(fs[i])
                         \/ (HeightOf(fs[j]) = HeightOf(fs[i]) /\ i <= j)

\* the url of the first requested format with a video codec, else the
\* entry's direct url
RequestedVideoUrl(e) ==
    LET rs == e["requested_formats"]
        S == {i \in 1..Len(rs) : ~CodecIsNone(rs[i], "vcodec")}
    IN  IF S = {} THEN DirectUrlOf(e)
        ELSE UrlOf(rs[CHOOSE i \in S : \A j \in S : i <= j])

\* the media URL of a video by the order of the claim; with nested, the
\* requested formats count only when formats is non-empty
PriorityUrl(e, nested) ==
    LET fs == FormatsOf(e)
    IN  IF Truthy(DirectUrlOf(e)) /\ HasSoundAndPicture(e) THEN DirectUrlOf(e)
        ELSE IF fs # <<>> /\ Mp4Places(fs, TRUE) # {}
        THEN UrlOf(fs[Tallest(fs, Mp4Places(fs, TRUE))])
        ELSE IF Has(e, "requested_formats") /\ (nested => fs # <<>>)
        THEN RequestedVideoUrl(e)
        ELSE IF Mp4Places(fs, FALSE) # {}
        THEN UrlOf(fs[Tallest(fs, Mp4Places(fs, FALSE))])
        ELSE DirectUrlOf(e)

\* a media handler got the info dict of a video from yt-dlp and has answered
VideoResolved ==
    /\ endpoint \in MediaEndpoints
    /\ pc \in {"streaming", "done"}
    /\ log # <<>>
    /\ IsCall(1, "ydl.extract_info")
    /\ log[1].out.kind = "return"
    /\ HasExtMp4(EntryOf(ResolvedInfo))

NoMediaUrlAnswer == JsonError(500, <<"No media URL found">>)

\* the handler went on with the URL u, or refused when u is empty or absent
WentOnWith(u) ==
    IF Truthy(u)
    THEN /\ Len(log) = 2
         /\ IsCall(2, "requests.get")
         /\ response # NoMediaUrlAnswer
         /\ log[2].out.kind = "return" =>
                /\ log[2].out.value = u
                /\ response.kind = "stream"
                /\ response.body.source = u[1]
    ELSE /\ response = NoMediaUrlAnswer
         /\ Len(log) = 1
         /\ stream = NoStream

\* C20 (as claimed): in /api/media/stream and /api/download the media URL of
\* a video is the first available of: (1) the direct url when present and
\* neither codec is 'none'; (2) when formats is non-empty, the url of the
\* tallest mp4 format with sound and picture, the first on ties; (3) when
\* requested_formats is present, the url of its first format with a video
\* codec, or the direct url; (4) the url of the tallest mp4 format; (5) the
\* direct url.  An empty or absent URL is answered 500 'No media URL found'
\* with no upstream stream opened.
C20_Original ==
    VideoResolved => WentOnWith(PriorityUrl(EntryOf(ResolvedInfo), FALSE))

\* C20 (amended): the same order, rule (3) applying only when formats is
\* non-empty: with no formats the direct url is taken even when
\* requested_formats is present.
C20_Amended ==
    /\ VideoResolved => WentOnWith(PriorityUrl(EntryOf(ResolvedInfo), TRUE))
    /\ (endpoint \in MediaEndpoints /\ response = NoMediaUrlAnswer) =>
           CallsOf("requests.get") = {}

\* rule (3) at work: no format has both sound and picture, and the first
\* requested format with a video codec, the second of the list, is streamed
C20_Witness ==
    /\ VideoResolved
    /\ endpoint = "download"
    /\ ResolvedInfo = InfoRequested
    /\ response.kind = "stream"
    /\ response.body.source = <<"cdn/f720.mp4">>

(***************************************************************************)
(* extract_media_info and the two strategies applied to what the upstream  *)
(* can answer.                                                             *)
(***************************************************************************)
\* the longest formats list of an entry, the most entries of a carousel
MaxFormats == 2
MaxEntries == 2

\* a key of a dict, present with a value (<<v>>) or absent (<<>>)
WithKey(d, k, p) == IF p = <<>> THEN d ELSE Put(d, k, p[1])

\* a format without a height: fmt.get('height', 0) is 0
FmtNoHeight == [ext |-> Some("mp4"), url |-> Some(<<"cdn/f0.mp4">>),
                acodec |-> Some("aac"), vcodec |-> Some("h264")]
FormatChoices == {Fmt360, Fmt360b, Fmt720, FmtWebm, FmtNoHeight}

\* the info dicts of one post: ext, formats, url and thumbnail each present
\* or not, the url possibly None
EntryInfos ==
    {WithKey(WithKey(WithKey(WithKey([id |-> Some(<<"e">>)], "ext", e), "formats", f),
                     "url", u), "thumbnail", t) :
        e \in {<<>>, <<Some("mp4")>>, <<Some("jpg")>>},
        f \in {<<>>} \cup {<<fs>> : fs \in SeqsUpTo(FormatChoices, MaxFormats)},
        u \in {<<>>, <<None>>, <<Some(<<"cdn/d.mp4">>)>>},
        t \in {<<>>, <<Some(<<"cdn/t.jpg">>)>>}}

\* the entries of a carousel
CarouselEntries ==
    {InfoImage, InfoVideo, InfoFormats, InfoRequested, InfoNoUrl,
     Put(InfoVideo, "url", None), Put(InfoImage, "url", None)}
Carousels ==
    {[_type |-> Some("playlist"), entries |-> es] : es \in SeqsUpTo(CarouselEntries, MaxEntries)}

\* ydl.extract_info returns an info dict, a carousel, or raises
ResolveUpstream ==
    {[kind |-> "info", info |-> i, msg |-> <<>>] : i \in EntryInfos \cup Carousels}
        \cup {[kind |-> "raise", info |-> EmptyDict, msg |-> m] : m \in YtdlpErrors}

\* the embed pages: what one pattern finds, the others find too
ResolvePages ==
    {g \in [video_word : BOOLEAN, poster_attr : BOOLEAN,
            username : {None, Some(<<"alice">>)},
            caption : {None, Some(<<"hello", "<br>", "world">>)},
            img_src : {None, Some(<<"cdn/e.jpg">>)},
            video_poster : {None, Some(<<"cdn/p.jpg">>)},
            video_src : {None, Some(<<"cdn/e.mp4">>)}] :
        /\ g.video_poster # None => g.video_word /\ g.poster_attr
        /\ g.video_src # None => g.video_word}

ResolveEmbedUpstream ==
    {[kind |-> "page", page |-> g, msg |-> <<>>] : g \in ResolvePages}
        \cup {[kind |-> "raise", page |-> EmptyDict, msg |-> m] : m \in EmbedErrors}

\* the URLs the strategies are given: the validator accepted them
ResolveUrls ==
    {Some(Https \o ColonSlashSlash \o WwwDot \o InstagramCom \o Slash \o KindP \o Slash
              \o <<"a">>),
     Some(Http \o ColonSlashSlash \o InstagramCom \o Slash \o KindReel \o Slash
              \o <<"a", "b">> \o Slash)}

InitResolve ==
    /\ endpoint = "none"
    /\ url \in ResolveUrls
    /\ pc = "pure"
    /\ shortcode = None
    /\ func = "get_post_data_ytdlp"
    /\ max_retries = DefaultMaxRetries
    /\ initial_backoff = DefaultInitialBackoff
    /\ retries = 0
    /\ result = None
    /\ raised = <<>>
    /\ response = NoResponse
    /\ log = <<>>
    /\ probe = [fn |-> "none", input |-> EmptyDict, out |-> EmptyDict]
    /\ cookie_file = FALSE
    /\ has_cookies = cookie_file
    /\ cookiefile = None
    /\ stream = NoStream

apply_extract_media_info ==
    /\ pc = "pure"
    /\ probe.fn = "none"
    /\ \E info \in EntryInfos :
           probe' = [fn |-> "extract_media_info", input |-> info,
                     out |-> extract_media_info(info)]
    /\ UNCHANGED <<endpoint, url, pc, shortcode, func, max_retries, initial_backoff,
                   retries, result, raised, response, log, cookie_file, has_cookies,
                   cookiefile, stream>>

apply_get_post_data_ytdlp ==
    /\ pc = "pure"
    /\ probe.fn = "none"
    /\ \E up \in ResolveUpstream :
           probe' = [fn |-> "get_post_data_ytdlp", input |-> up,
                     out |-> get_post_data_ytdlp(url[1], up)]
    /\ UNCHANGED <<endpoint, url, pc, shortcode, func, max_retries, initial_backoff,
                   retries, result, raised, response, log, cookie_file, has_cookies,
                   cookiefile, stream>>

apply_get_post_data_no_login ==
    /\ pc = "pure"
    /\ probe.fn = "none"
    /\ \E up \in ResolveEmbedUpstream :
           probe' = [fn |-> "get_post_data_no_login", input |-> up,
                     out |-> get_post_data_no_login(url[1], up)]
    /\ UNCHANGED <<endpoint, url, pc, shortcode, func, max_retries, initial_backoff,
                   retries, result, raised, response, log, cookie_file, has_cookies,
                   cookiefile, stream>>

NextResolve ==
    \/ apply_extract_media_info
    \/ apply_get_post_data_ytdlp
    \/ apply_get_post_data_no_login

SpecResolve == InitResolve /\ [][NextResolve]_vars

\* extract_media_info has been applied to a video with an mp4 among its formats
ExtractedFromFormats ==
    /\ probe.fn = "extract_media_info"
    /\ HasExtMp4(probe.input)
    /\ Mp4Places(FormatsOf(probe.input), FALSE) # {}

\* fs[i] is an mp4 format and no mp4 format of fs is taller
IsTallestMp4(fs, i) ==
    /\ i \in Mp4Places(fs, FALSE)
    /\ \A j \in Mp4Places(fs, FALSE) : HeightOf(fs[j]) <= HeightOf(fs[i])

\* C21: for a video info dict whose formats hold an mp4 format,
\* extract_media_info sets urls.video to the url of the mp4 format with the
\* greatest height, also when the info dict has a top-level url.
C21_Claim ==
    ExtractedFromFormats =>
        LET fs == FormatsOf(probe.input)
        IN  /\ Has(probe.out.urls, "video")
            /\ \E i \in 1..Len(fs) :
                   IsTallestMp4(fs, i) /\ probe.out.urls["video"] = UrlOf(fs[i])

\* the calls of the two strategies in the log
StrategyCalls == {i \in 1..Len(log) : log[i].ev = "call" /\ log[i].f \in {Ytdlp, NoLogin}}

\* of the pair (record, error), exactly one component is None
ExactlyOneNone(pair) ==
    \/ pair.post_data = None /\ pair.error # None
    \/ pair.post_data # None /\ pair.error = None

\* the handler of /api/data or /api/direct-data has answered after resolving
ResolvedAndAnswered == endpoint \in DataEndpoints /\ pc = "done" /\ log # <<>>

\* C22: the two strategies never raise to the endpoint and always return a
\* pair (record, error) with exactly one component None; so, with the default
\* max_retries, /api/data and /api/direct-data answer either the 500 error
\* or the success built from a record that is not None.
C22_NeverRaise ==
    endpoint \in DataEndpoints =>
        /\ max_retries = DefaultMaxRetries
        /\ pc # "wrapper_raised"
        /\ \A i \in StrategyCalls :
               log[i].out.kind = "return" /\ ExactlyOneNone(PairOf(i))
        /\ pc = "wrapper_returned" => result # None
        /\ ResolvedAndAnswered =>
               LET last == log[Len(log)]
               IN  /\ last.ev = "call"
                   /\ last.out.kind = "return"
                   /\ \/ /\ response.code = 500
                         /\ last.out.value[1].post_data = None
                         /\ \A i \in StrategyCalls : PairOf(i).post_data = None
                      \/ /\ response.code = 200
                         /\ last.out.value[1].post_data # None
                         /\ response.body.data # None
                         /\ response =
                                IF endpoint = "data"
                                THEN DataSuccess(last.out.value[1].post_data)
                                ELSE DirectSuccess(last.out.value[1].post_data,
                                                   shortcode[1])

\* the first strategy failed and /api/direct-data answered from the record
\* of the second
C22_Witness ==
    /\ ResolvedAndAnswered
    /\ endpoint = "direct-data"
    /\ Len(log) = 2
    /\ PairOf(1).post_data = None
    /\ PairOf(2).post_data # None
    /\ response.code = 200

(***************************************************************************)
(* The retry decorator under a scheduler that keeps running the wrapper:   *)
(* the wrapped function terminates and every sleep ends, so a step of the  *)
(* loop that can be taken is taken.                                        *)
(***************************************************************************)
SpecRetryFair == InitRetry /\ [][NextRetry]_vars /\ WF_vars(NextRetry)

\* the call through the wrapper has ended
WrapperEnded == pc \in {"wrapper_returned", "wrapper_raised"}

\* the wrapper ended with what the last invocation of the function ended with
EndedAsLastInvocation ==
    /\ log # <<>>
    /\ LET last == log[Len(log)]
       IN  /\ last.ev = "call"
           /\ \/ pc = "wrapper_returned" /\ last.out.kind = "return"
                     /\ result = last.out.value
              \/ pc = "wrapper_raised" /\ last.out.kind = "raise"
                     /\ raised = last.out.msg

\* C23: for every max_retries >= 0 and every terminating wrapped function, a
\* call through retry_with_backoff terminates, invokes the function at least
\* once and at most max_retries times, and ends by returning the value or
\* raising the failure of its last invocation; it never returns a value of
\* its own without having called the function.
C23_Claim ==
    /\ <>WrapperEnded
    /\ [](WrapperEnded =>
            /\ Cardinality(CallsOf("f")) >= 1
            /\ Cardinality(CallsOf("f")) <= max_retries
            /\ EndedAsLastInvocation)

\* a record has the video role only if its is_video is true
VideoOnlyIfVideo(rec) == Has(rec["urls"], "video") => rec["is_video"] = TRUE

\* a record has not both the image role and the video role
NotBothRoles(rec) == ~(Has(rec["urls"], "image") /\ Has(rec["urls"], "video"))

\* a strategy has been applied and returned a record
StrategyReturnedRecord ==
    /\ probe.fn \in {Ytdlp, NoLogin}
    /\ probe.out.post_data # None

\* the items of a carousel record, none for another record
CarouselItemsOf(rec) == IF Has(rec, "carousel_items") THEN rec["carousel_items"] ELSE <<>>

\* C24: in every record returned by either strategy, the first-entry record
\* of a carousel and the fallback record of a failed extraction included, urls
\* has a video role only if is_video is true; and a record of the yt-dlp
\* strategy never has both an image role and a video role.
C24_VideoRole ==
    /\ probe.fn = "extract_media_info" =>
           VideoOnlyIfVideo(probe.out) /\ NotBothRoles(probe.out)
    /\ StrategyReturnedRecord =>
           LET rec == probe.out.post_data[1]
               items == CarouselItemsOf(rec)
           IN  /\ VideoOnlyIfVideo(rec)
               /\ probe.fn = Ytdlp =>
                      /\ NotBothRoles(rec)
                      /\ \A i \in 1..Len(items) :
                             VideoOnlyIfVideo(items[i]) /\ NotBothRoles(items[i])

\* a carousel whose first entry is a video and whose second entry fails to
\* extract: the record has the video role and is_video, the second item is
\* the fallback record
C24_Witness ==
    /\ StrategyReturnedRecord
    /\ probe.fn = Ytdlp
    /\ LET rec == probe.out.post_data[1]
           items == CarouselItemsOf(rec)
       IN  /\ Len(items) >= 2
           /\ Has(rec["urls"], "video")
           /\ rec["is_video"] = TRUE
           /\ items[2] = MediaInfoFallback

====
